---- MODULE Spec2Model ----
(***************************************************************************)
(* Cloth simulation of src/main.cpp (Verlet particles, distance links,     *)
(* picking, dragging, cutting, tearing) as a state machine.                *)
(*                                                                         *)
(* Numbers.  The program computes in 32-bit floats.  The model computes in *)
(* fixed point: every world or screen coordinate is an integer number of   *)
(* hundredths (UNIT = 100), and every float operation (multiply by a       *)
(* factor, divide, sqrt, sin) is the real operation rounded to the nearest *)
(* hundredth, as the float operation is the real operation rounded to the  *)
(* nearest float.  Pointer positions are whole pixels, as                  *)
(* sf::Mouse::getPosition returns integers.                                *)
(***************************************************************************)
EXTENDS Integers, Sequences, FiniteSets, TLC

\* ---------------------------------------------------------------- bounds
\* Grid size of the model (the program's grid is 70 x 45).
WIDTH == 3
HEIGHT == 3
\* Frames of the main loop that are explored.
MaxFrames == 2
\* Window events handled by one frame's polling loop.
MaxEvents == 1
\* Largest coordinate of the points handed to intersects on its own.
MaxCoord == 2
\* Largest step count, per axis, between the endpoints of a link relaxed on
\* its own.
MaxSpread == 2

\* ------------------------------------------------------ program constants
UNIT == 100
DISTANCE == 1800
GRAVITY == 35
AIR_FRICTION == 98
STRETCH_LIMIT == 5
\* epsilon of Link::solve, 0.1
MIN_DIST == 10
\* number of relaxation passes of one frame
ITERATIONS == 8
\* pick radius of the press handler, 50 pixels
PICK_RADIUS == 5000
\* focal length 900 and camera offset 500
FOCAL == 90000
CAMERA == 50000
\* window of sf::VideoMode(1400, 900)
WIN_W == 140000
WIN_H == 90000
\* wind amplitude 0.15 and depth damping 0.99
WIND == 15
Z_DAMP == 99
\* resolution of the perspective factor (a float in (0, 1] in the program)
PSCALE == 100 * UNIT

NP == WIDTH * HEIGHT
PointIds == 0 .. (NP - 1)
\* nullptr of grabbedPoint
NoPoint == 0 - 1

\* ------------------------------------------------------------ arithmetic
Abs(a) == IF a < 0 THEN 0 - a ELSE a

\* a / b rounded to the nearest integer, halves away from zero (b > 0)
RoundDiv(a, b) ==
  IF a >= 0 THEN (2 * a + b) \div (2 * b)
            ELSE 0 - ((2 * (0 - a) + b) \div (2 * b))

RECURSIVE SqrtIter(_, _)
SqrtIter(n, x) ==
  LET y == (x + n \div x) \div 2
  IN IF y >= x THEN x ELSE SqrtIter(n, y)

\* floor of the square root
FloorSqrt(n) == IF n <= 0 THEN 0 ELSE SqrtIter(n, n)

\* std::sqrt: the square root rounded to the nearest representable value
Sqrt(n) ==
  LET s == FloorSqrt(n)
  IN IF n - s * s > s THEN s + 1 ELSE s

\* std::sin of an angle given in hundredths of a radian, result in
\* thousandths (Bhaskara's rational approximation on each half period)
HALF_TURN == 314
SinHalf(a) ==
  LET p == a * (HALF_TURN - a)
  IN RoundDiv(16000 * p, 5 * HALF_TURN * HALF_TURN - 4 * p)
Sin(a) ==
  LET r == a % (2 * HALF_TURN)
  IN IF r < HALF_TURN THEN SinHalf(r) ELSE 0 - SinHalf(r - HALF_TURN)

Vec3(x, y, z) == [x |-> x, y |-> y, z |-> z]
Vec2(x, y) == [x |-> x, y |-> y]
\* length of a 3D difference, sqrt(d.x*d.x + d.y*d.y + d.z*d.z)
Length3(d) == Sqrt(d.x * d.x + d.y * d.y + d.z * d.z)

\* ------------------------------------------------------------ struct Point
Point(x, y, z) ==
  [pos |-> Vec3(x, y, z), prevPos |-> Vec3(x, y, z),
   locked |-> FALSE, isGrabbed |-> FALSE]

\* an update that leaves out "pos.y += GRAVITY"
PointUpdate_NoGravity(p, time) ==
  IF p.locked \/ p.isGrabbed THEN p
  ELSE
    LET vx == RoundDiv((p.pos.x - p.prevPos.x) * AIR_FRICTION, 100)
        vy == RoundDiv((p.pos.y - p.prevPos.y) * AIR_FRICTION, 100)
        vz == RoundDiv((p.pos.z - p.prevPos.z) * AIR_FRICTION, 100)
        nx == p.pos.x + vx
        ny == p.pos.y + vy
        wind == RoundDiv(Sin(time + RoundDiv(nx, 20)) * WIND, 1000)
        nz == RoundDiv((p.pos.z + vz + wind) * Z_DAMP, 100)
    IN [p EXCEPT !.prevPos = p.pos, !.pos = Vec3(nx, ny, nz)]

\* Point::update(time), time in hundredths of a second
PointUpdate(p, time) ==
  IF p.locked \/ p.isGrabbed THEN p
  ELSE
    LET vx == RoundDiv((p.pos.x - p.prevPos.x) * AIR_FRICTION, 100)
        vy == RoundDiv((p.pos.y - p.prevPos.y) * AIR_FRICTION, 100)
        vz == RoundDiv((p.pos.z - p.prevPos.z) * AIR_FRICTION, 100)
        nx == p.pos.x + vx
        ny == p.pos.y + vy + GRAVITY
        \* pos.x * 0.05 radians is pos.x / 20 hundredths of a radian
        wind == RoundDiv(Sin(time + RoundDiv(nx, 20)) * WIND, 1000)
        nz == RoundDiv((p.pos.z + vz + wind) * Z_DAMP, 100)
    IN [p EXCEPT !.prevPos = p.pos, !.pos = Vec3(nx, ny, nz)]

\* ------------------------------------------------------------- struct Link
\* a constructor that leaves out the vertical axis
Link_Flat(pts, a, b) ==
  LET d == Vec3(pts[a].pos.x - pts[b].pos.x, 0, pts[a].pos.z - pts[b].pos.z)
  IN [p1 |-> a, p2 |-> b, targetDist |-> Length3(d), broken |-> FALSE]

\* Link::Link(a, b): the rest length is the distance at creation
Link(pts, a, b) ==
  LET d == Vec3(pts[a].pos.x - pts[b].pos.x,
                pts[a].pos.y - pts[b].pos.y,
                pts[a].pos.z - pts[b].pos.z)
  IN [p1 |-> a, p2 |-> b, targetDist |-> Length3(d), broken |-> FALSE]

\* current distance of a link's endpoints as Link::solve computes it
LinkDist(pts, l) ==
  Length3(Vec3(pts[l.p1].pos.x - pts[l.p2].pos.x,
               pts[l.p1].pos.y - pts[l.p2].pos.y,
               pts[l.p1].pos.z - pts[l.p2].pos.z))

\* a tear test that already snaps at the limit itself
Overstretched_AtLimit(dist, targetDist) == dist >= targetDist * STRETCH_LIMIT

\* the tear test of Link::solve
Overstretched(dist, targetDist) == dist > targetDist * STRETCH_LIMIT

\* a relaxation that forgets the pin
Movable_IgnoreLocked(p) == ~p.isGrabbed

\* whether Link::solve may move this point
Movable(p) == ~p.locked /\ ~p.isGrabbed

\* a relaxation that moves each endpoint by the whole error, not by half
LinkRelax_FullStep(pts, l) ==
    LET a == pts[l.p1]
        b == pts[l.p2]
        dx == a.pos.x - b.pos.x
        dy == a.pos.y - b.pos.y
        dz == a.pos.z - b.pos.z
        dist == LinkDist(pts, l)
    IN IF Overstretched(dist, l.targetDist)
         THEN [pts |-> pts, link |-> [l EXCEPT !.broken = TRUE]]
       ELSE IF dist < MIN_DIST THEN [pts |-> pts, link |-> l]
       ELSE
         LET ox == RoundDiv(dx * (l.targetDist - dist), dist)
             oy == RoundDiv(dy * (l.targetDist - dist), dist)
             oz == RoundDiv(dz * (l.targetDist - dist), dist)
             pts1 == IF Movable(a)
                       THEN [pts EXCEPT ![l.p1].pos =
                               Vec3(a.pos.x + ox, a.pos.y + oy, a.pos.z + oz)]
                       ELSE pts
             b1 == pts1[l.p2]
             pts2 == IF Movable(b1)
                       THEN [pts1 EXCEPT ![l.p2].pos =
                               Vec3(b1.pos.x - ox, b1.pos.y - oy, b1.pos.z - oz)]
                       ELSE pts1
         IN [pts |-> pts2, link |-> l]

\* a relaxation whose guard lets through every distance but zero
LinkRelax_GuardZeroOnly(pts, l) ==
    LET a == pts[l.p1]
        b == pts[l.p2]
        dx == a.pos.x - b.pos.x
        dy == a.pos.y - b.pos.y
        dz == a.pos.z - b.pos.z
        dist == LinkDist(pts, l)
    IN IF Overstretched(dist, l.targetDist)
         THEN [pts |-> pts, link |-> [l EXCEPT !.broken = TRUE]]
       ELSE IF dist < 1 THEN [pts |-> pts, link |-> l]
       ELSE
         LET ox == RoundDiv(dx * (l.targetDist - dist), 2 * dist)
             oy == RoundDiv(dy * (l.targetDist - dist), 2 * dist)
             oz == RoundDiv(dz * (l.targetDist - dist), 2 * dist)
             pts1 == IF Movable(a)
                       THEN [pts EXCEPT ![l.p1].pos =
                               Vec3(a.pos.x + ox, a.pos.y + oy, a.pos.z + oz)]
                       ELSE pts
             b1 == pts1[l.p2]
             pts2 == IF Movable(b1)
                       THEN [pts1 EXCEPT ![l.p2].pos =
                               Vec3(b1.pos.x - ox, b1.pos.y - oy, b1.pos.z - oz)]
                       ELSE pts1
         IN [pts |-> pts2, link |-> l]

\* Link::solve() past its "if (broken) return": tear test, epsilon guard,
\* correction of the endpoints that may move
LinkRelax(pts, l) ==
    LET a == pts[l.p1]
        b == pts[l.p2]
        dx == a.pos.x - b.pos.x
        dy == a.pos.y - b.pos.y
        dz == a.pos.z - b.pos.z
        dist == LinkDist(pts, l)
    IN IF Overstretched(dist, l.targetDist)
         THEN [pts |-> pts, link |-> [l EXCEPT !.broken = TRUE]]
       ELSE IF dist < MIN_DIST THEN [pts |-> pts, link |-> l]
       ELSE
         LET ox == RoundDiv(dx * (l.targetDist - dist), 2 * dist)
             oy == RoundDiv(dy * (l.targetDist - dist), 2 * dist)
             oz == RoundDiv(dz * (l.targetDist - dist), 2 * dist)
             pts1 == IF Movable(a)
                       THEN [pts EXCEPT ![l.p1].pos =
                               Vec3(a.pos.x + ox, a.pos.y + oy, a.pos.z + oz)]
                       ELSE pts
             b1 == pts1[l.p2]
             pts2 == IF Movable(b1)
                       THEN [pts1 EXCEPT ![l.p2].pos =
                               Vec3(b1.pos.x - ox, b1.pos.y - oy, b1.pos.z - oz)]
                       ELSE pts1
         IN [pts |-> pts2, link |-> l]

\* a solve without its "if (broken) return"
LinkSolve_IgnoreBroken(pts, l) == LinkRelax(pts, l)

\* Link::solve(): the points and the link after one call
LinkSolve(pts, l) ==
  IF l.broken THEN [pts |-> pts, link |-> l] ELSE LinkRelax(pts, l)

\* for (auto &l : links) l.solve();  from link j on: the points and links
\* before each call of solve, and after the last one
RECURSIVE SolveTrace(_, _, _)
SolveTrace(pts, lks, j) ==
  IF j > Len(lks) THEN <<[pts |-> pts, lks |-> lks]>>
  ELSE LET r == LinkSolve(pts, lks[j])
       IN <<[pts |-> pts, lks |-> lks]>>
          \o SolveTrace(r.pts, [lks EXCEPT ![j] = r.link], j + 1)

\* the points and links after the loop
SolveFrom(pts, lks, j) ==
  LET t == SolveTrace(pts, lks, j)
  IN t[Len(t)]

\* -------------------------------------------------------------- projection
Perspective(z) == RoundDiv(FOCAL * PSCALE, FOCAL + z + CAMERA)

\* project(p, winSize)
Project(p) ==
  LET persp == Perspective(p.z)
  IN Vec2(WIN_W \div 2 + RoundDiv(p.x * persp, PSCALE),
          WIN_H \div 10 + RoundDiv(p.y * persp, PSCALE))

\* the reverse projection of the dragging block, at depth z
Unproject(m, z) ==
  LET persp == Perspective(z)
  IN Vec2(RoundDiv((m.x - WIN_W \div 2) * PSCALE, persp),
          RoundDiv((m.y - WIN_H \div 10) * PSCALE, persp))

\* a ccw helper that counts a point on the line as counter-clockwise
Ccw_NotStrict(p0, p1, p2) ==
  (p2.y - p0.y) * (p1.x - p0.x) >= (p1.y - p0.y) * (p2.x - p0.x)

\* ccw helper of intersects
Ccw(p0, p1, p2) ==
  (p2.y - p0.y) * (p1.x - p0.x) > (p1.y - p0.y) * (p2.x - p0.x)

\* signed area of the triangle p0, p1, p2, twice
Orient(p0, p1, p2) ==
  (p2.y - p0.y) * (p1.x - p0.x) - (p1.y - p0.y) * (p2.x - p0.x)

\* a test that counts touching as crossing
Intersects_Touching(a, b, c, d) ==
  /\ Orient(a, c, d) * Orient(b, c, d) <= 0
  /\ Orient(a, b, c) * Orient(a, b, d) <= 0

\* intersects(a, b, c, d)
Intersects(a, b, c, d) ==
  (Ccw(a, c, d) # Ccw(b, c, d)) /\ (Ccw(a, b, c) # Ccw(a, b, d))

\* ------------------------------------------------------- grid construction
\* points.emplace_back(x * DISTANCE - (WIDTH * DISTANCE) / 2, y * DISTANCE, 0)
\* and the pinning of the top row; point i is column i % WIDTH of row
\* i / WIDTH
GridPoint(i) ==
  LET x == i % WIDTH
      y == i \div WIDTH
  IN [Point(x * DISTANCE - (WIDTH * DISTANCE) \div 2, y * DISTANCE, 0)
        EXCEPT !.locked = (y = 0)]

GridPoints == [i \in PointIds |-> GridPoint(i)]

\* a construction loop that forgets the link down
CellLinks_NoDown(pts, i) ==
  IF i % WIDTH < WIDTH - 1 THEN <<Link(pts, i, i + 1)>> ELSE <<>>

\* the links the construction loop appends for cell i: right, then down
CellLinks(pts, i) ==
  LET x == i % WIDTH
      y == i \div WIDTH
  IN (IF x < WIDTH - 1 THEN <<Link(pts, i, i + 1)>> ELSE <<>>)
     \o (IF y < HEIGHT - 1 THEN <<Link(pts, i, i + WIDTH)>> ELSE <<>>)

RECURSIVE GridLinksFrom(_, _)
GridLinksFrom(pts, i) ==
  IF i >= NP THEN <<>> ELSE CellLinks(pts, i) \o GridLinksFrom(pts, i + 1)

GridLinks == GridLinksFrom(GridPoints, 0)

\* ------------------------------------------------------------------ inputs
Pixel(x, y) == Vec2(x * UNIT, y * UNIT)

\* pointer positions a frame may sample (whole pixels)
MousePositions ==
  { Pixel(700, 88),     \* above the top row, nearest to pinned particles
    Pixel(694, 250),    \* far below the cloth
    Pixel(646, 122) }   \* left of the cloth

\* seconds (in hundredths) between two samples of the clock
FrameTimes == {2}

\* ------------------------------------------------------------------- state
VARIABLES
  points,        \* std::vector<Point> points, indexed from 0
  links,         \* std::vector<Link> links, in vector order
  grabbedPoint,  \* Point *grabbedPoint: a point index, or NoPoint
  lastMousePos,  \* sf::Vector2f lastMousePos
  mPos,          \* sf::Vector2f mPos, sampled at the top of the frame
  elapsed,       \* float elapsed, sampled at the top of the frame
  rightDown,     \* what sf::Mouse::isButtonPressed(Right) returned this frame
  open,          \* window.isOpen()
  event,         \* sf::Event event: the type of the event polled last
  pc,            \* position in the body of the main loop
  iter,          \* int i of the solver loop
  nEvents,       \* events the polling loop of this frame has handled
  frame,         \* frames started
  probe          \* a call of intersects on its own: arguments and result

vars == <<points, links, grabbedPoint, lastMousePos, mPos, elapsed, rightDown,
          open, event, pc, iter, nEvents, frame, probe>>

\* no call of intersects outside the frame loop
NoProbe ==
  [a |-> Vec2(0, 0), b |-> Vec2(0, 0), c |-> Vec2(0, 0), d |-> Vec2(0, 0),
   ret |-> "none"]

\* state after the construction code of main, before the first frame
Init ==
  /\ probe = NoProbe
  /\ points = GridPoints
  /\ links = GridLinks
  /\ grabbedPoint = NoPoint
  /\ lastMousePos = Vec2(0, 0)
  /\ mPos = Vec2(0, 0)
  /\ elapsed = 0
  /\ rightDown = FALSE
  /\ open = TRUE
  /\ event = "none"
  /\ pc = "begin"
  /\ iter = 0
  /\ nEvents = 0
  /\ frame = 0

\* ------------------------------------------------------------ press-select
\* sqrt(dx*dx + dy*dy) of the press handler.  Beyond FAR the value is
\* reported as FAR itself: it is only ever compared with a radius of at
\* most PICK_RADIUS, and the squares stay within 32 bits.
FAR == 4 * PICK_RADIUS
ScreenDist(proj, m) ==
  LET dx == proj.x - m.x
      dy == proj.y - m.y
  IN IF Abs(dx) >= FAR \/ Abs(dy) >= FAR THEN FAR
     ELSE Sqrt(dx * dx + dy * dy)

\* a test that forgets "&& !p.locked"
PickTest_AnyPoint(p, d, minDist) == d < minDist

\* the test that lets point p replace the current candidate
PickTest(p, d, minDist) == d < minDist /\ ~p.locked

\* the loop "for (auto &p : points)" of the press handler from point i on,
\* with the running minDist and grabbedPoint; its result is grabbedPoint
RECURSIVE PickFrom(_, _, _, _, _)
PickFrom(pts, m, i, minDist, gp) ==
  IF i >= NP THEN gp
  ELSE LET d == ScreenDist(Project(pts[i].pos), m)
       IN IF PickTest(pts[i], d, minDist)
            THEN PickFrom(pts, m, i + 1, d, i)
            ELSE PickFrom(pts, m, i + 1, minDist, gp)

\* grabbedPoint after the loop of the press handler
Pick(pts, m, gp) == PickFrom(pts, m, 0, PICK_RADIUS, gp)

\* ----------------------------------------------------------------- actions
\* top of the loop body: sample the clock and the pointer
BeginFrame ==
  /\ pc = "begin"
  /\ open
  /\ frame < MaxFrames
  /\ \E dt \in FrameTimes : elapsed' = elapsed + dt
  /\ \E m \in MousePositions : mPos' = m
  /\ frame' = frame + 1
  /\ nEvents' = 0
  /\ pc' = "poll"
  /\ UNCHANGED <<probe, points, links, grabbedPoint, lastMousePos, rightDown, open, event, iter>>

\* pollEvent delivers MouseButtonPressed with the left button
PressLeft ==
  /\ pc = "poll"
  /\ nEvents < MaxEvents
  /\ LET gp == Pick(points, mPos, grabbedPoint)
     IN /\ grabbedPoint' = gp
        /\ points' = IF gp # NoPoint
                       THEN [points EXCEPT ![gp].isGrabbed = TRUE]
                       ELSE points
  /\ nEvents' = nEvents + 1
  /\ event' = "MouseButtonPressed"
  /\ UNCHANGED <<probe, links, lastMousePos, mPos, elapsed, rightDown, open, pc, iter, frame>>

\* a release handler that clears the flag and keeps the pointer to the point
ReleaseLeft_KeepsPointer ==
  /\ pc = "poll"
  /\ nEvents < MaxEvents
  /\ IF grabbedPoint # NoPoint
       THEN points' = [points EXCEPT ![grabbedPoint].isGrabbed = FALSE]
       ELSE UNCHANGED points
  /\ nEvents' = nEvents + 1
  /\ event' = "MouseButtonReleased"
  /\ UNCHANGED <<probe, links, grabbedPoint, lastMousePos, mPos, elapsed, rightDown,
                 open, pc, iter, frame>>

\* pollEvent delivers MouseButtonReleased with the left button
ReleaseLeft ==
  /\ pc = "poll"
  /\ nEvents < MaxEvents
  /\ IF grabbedPoint # NoPoint
       THEN /\ points' = [points EXCEPT ![grabbedPoint].isGrabbed = FALSE]
            /\ grabbedPoint' = NoPoint
       ELSE UNCHANGED <<points, grabbedPoint>>
  /\ nEvents' = nEvents + 1
  /\ event' = "MouseButtonReleased"
  /\ UNCHANGED <<probe, links, lastMousePos, mPos, elapsed, rightDown, open, pc, iter, frame>>

\* pollEvent delivers Closed
Closed ==
  /\ pc = "poll"
  /\ nEvents < MaxEvents
  /\ open' = FALSE
  /\ nEvents' = nEvents + 1
  /\ event' = "Closed"
  /\ UNCHANGED <<probe, points, links, grabbedPoint, lastMousePos, mPos, elapsed,
                 rightDown, pc, iter, frame>>

\* the dragging block: the grabbed point after it
Dragged(p, m) ==
  LET w == Unproject(m, p.pos.z)
      np == Vec3(w.x, w.y, p.pos.z)
  IN [p EXCEPT !.pos = np, !.prevPos = np]

\* pollEvent returns false; "Logic: Dragging Points"
Dragging ==
  /\ pc = "poll"
  /\ points' = IF grabbedPoint # NoPoint
                 THEN [points EXCEPT ![grabbedPoint] = Dragged(@, mPos)]
                 ELSE points
  /\ pc' = "cut"
  /\ UNCHANGED <<probe, links, grabbedPoint, lastMousePos, mPos, elapsed, rightDown,
                 open, event, iter, nEvents, frame>>

\* whether the pointer trail from a to b crosses link l on the screen
Crossed(pts, l, a, b) ==
  Intersects(a, b, Project(pts[l.p1].pos), Project(pts[l.p2].pos))

\* a cutting loop that breaks the links the trail does not cross
CutLink_Inverted(pts, l, a, b) ==
  IF Crossed(pts, l, a, b) THEN l ELSE [l EXCEPT !.broken = TRUE]

\* the link after the body of the cutting loop
CutLink(pts, l, a, b) ==
  IF Crossed(pts, l, a, b) THEN [l EXCEPT !.broken = TRUE] ELSE l

\* a cutting block that tests the links where a relaxation pass would leave
\* their endpoints
Cutting_AfterRelaxation ==
  /\ pc = "cut"
  /\ \E right \in BOOLEAN :
       /\ rightDown' = right
       /\ links' = IF right
                     THEN [j \in 1 .. Len(links) |->
                             CutLink(SolveFrom(points, links, 1).pts, links[j],
                                     lastMousePos, mPos)]
                     ELSE links
  /\ iter' = 0
  /\ pc' = "solve"
  /\ UNCHANGED <<probe, points, grabbedPoint, lastMousePos, mPos, elapsed, open,
                 event, nEvents, frame>>

\* "Logic: Cutting Links (Right Click)"
Cutting ==
  /\ pc = "cut"
  /\ \E right \in BOOLEAN :
       /\ rightDown' = right
       /\ links' = IF right
                     THEN [j \in 1 .. Len(links) |->
                             CutLink(points, links[j], lastMousePos, mPos)]
                     ELSE links
  /\ iter' = 0
  /\ pc' = "solve"
  /\ UNCHANGED <<probe, points, grabbedPoint, lastMousePos, mPos, elapsed, open,
                 event, nEvents, frame>>

\* one iteration of the solver loop: every link solved once, in order
SolvePass ==
  /\ pc = "solve"
  /\ iter < ITERATIONS
  /\ LET r == SolveFrom(points, links, 1)
     IN /\ points' = r.pts
        /\ links' = r.lks
  /\ iter' = iter + 1
  /\ pc' = IF iter + 1 = ITERATIONS THEN "evict" ELSE "solve"
  /\ UNCHANGED <<probe, grabbedPoint, lastMousePos, mPos, elapsed, rightDown, open,
                 event, nEvents, frame>>

\* a removal whose predicate is inverted
RemoveIfBroken_Inverted(lks) == SelectSeq(lks, LAMBDA l : l.broken)

\* a removal that leaves the survivors pointing at one particle twice
RemoveIfBroken_Rewired(lks) ==
  LET kept == SelectSeq(lks, LAMBDA l : ~l.broken)
  IN [j \in 1 .. Len(kept) |-> [kept[j] EXCEPT !.p2 = kept[j].p1]]

\* std::remove_if + erase: the links that are not broken, in order
RemoveIfBroken(lks) == SelectSeq(lks, LAMBDA l : ~l.broken)

\* "Remove broken links from the vector"
RemoveBroken ==
  /\ pc = "evict"
  /\ links' = RemoveIfBroken(links)
  /\ pc' = "update"
  /\ UNCHANGED <<probe, points, grabbedPoint, lastMousePos, mPos, elapsed, rightDown,
                 open, event, iter, nEvents, frame>>

\* an end of frame that stores the pointer only while the right button is held
UpdatePoints_StoreWhenCutting ==
  /\ pc = "update"
  /\ points' = [i \in PointIds |-> PointUpdate(points[i], (elapsed * 3) \div 2)]
  /\ lastMousePos' = IF rightDown THEN mPos ELSE lastMousePos
  /\ pc' = "render"
  /\ UNCHANGED <<probe, links, grabbedPoint, mPos, elapsed, rightDown, open, event,
                 iter, nEvents, frame>>

\* p.update(elapsed * 1.5f) for every point, and lastMousePos = mPos
UpdatePoints ==
  /\ pc = "update"
  /\ points' = [i \in PointIds |-> PointUpdate(points[i], (elapsed * 3) \div 2)]
  /\ lastMousePos' = mPos
  /\ pc' = "render"
  /\ UNCHANGED <<probe, links, grabbedPoint, mPos, elapsed, rightDown, open, event,
                 iter, nEvents, frame>>

\* the links are drawn; the loop goes back to its condition
Render ==
  /\ pc = "render"
  /\ pc' = "begin"
  /\ UNCHANGED <<probe, points, links, grabbedPoint, lastMousePos, mPos, elapsed,
                 rightDown, open, event, iter, nEvents, frame>>

Next ==
  \/ BeginFrame
  \/ PressLeft
  \/ ReleaseLeft
  \/ Closed
  \/ Dragging
  \/ Cutting
  \/ SolvePass
  \/ RemoveBroken
  \/ UpdatePoints
  \/ Render

Spec == Init /\ [][Next]_vars

\* ------------------------------------------------- intersects on its own
\* points with whole coordinates 0 .. MaxCoord
Coords == {Vec2(x, y) : x \in 0 .. MaxCoord, y \in 0 .. MaxCoord}

\* any four such points, intersects not yet called
InitIntersects ==
  /\ probe \in [a : Coords, b : Coords, c : Coords, d : Coords, ret : {"none"}]
  /\ points = GridPoints
  /\ links = GridLinks
  /\ grabbedPoint = NoPoint
  /\ lastMousePos = Vec2(0, 0)
  /\ mPos = Vec2(0, 0)
  /\ elapsed = 0
  /\ rightDown = FALSE
  /\ open = TRUE
  /\ event = "none"
  /\ pc = "begin"
  /\ iter = 0
  /\ nEvents = 0
  /\ frame = 0

\* the call intersects(a, b, c, d)
CallIntersects ==
  /\ probe.ret = "none"
  /\ probe' = [probe EXCEPT !.ret =
                 IF Intersects(probe.a, probe.b, probe.c, probe.d)
                   THEN "true" ELSE "false"]
  /\ UNCHANGED <<points, links, grabbedPoint, lastMousePos, mPos, elapsed,
                 rightDown, open, event, pc, iter, nEvents, frame>>

SpecIntersects == InitIntersects /\ [][CallIntersects]_vars

\* ------------------------------------------------ one link on its own
\* lengths of one step between the endpoints: below the epsilon of solve,
\* about a third of the grid spacing, about the grid spacing
LinkScales == {1, 7, 600, 1700}

\* rest lengths: none, below the epsilon, short, the grid spacing
RestLengths == {0, 5, 400, DISTANCE}

\* where the second endpoint may be, the first being at the origin
LinkSpreads ==
  {Vec3(s * x, s * y, s * z) :
     s \in LinkScales, x \in 0 .. MaxSpread,
     y \in (0 - MaxSpread) .. MaxSpread, z \in {0 - MaxSpread, 0, MaxSpread}}

\* two free points and nothing else
LinkPair(d) ==
  [i \in {0, 1} |-> IF i = 0 THEN Point(0, 0, 0) ELSE Point(d.x, d.y, d.z)]

\* an unbroken link between them of rest length t
LoneLink(t) == [p1 |-> 0, p2 |-> 1, targetDist |-> t, broken |-> FALSE]

\* the solver loop is about to run on one link between two free points
InitLink ==
  /\ points \in {LinkPair(d) : d \in LinkSpreads}
  /\ links \in {<<LoneLink(t)>> : t \in RestLengths}
  /\ probe = NoProbe
  /\ grabbedPoint = NoPoint
  /\ lastMousePos = Vec2(0, 0)
  /\ mPos = Vec2(0, 0)
  /\ elapsed = 0
  /\ rightDown = FALSE
  /\ open = TRUE
  /\ event = "none"
  /\ pc = "solve"
  /\ iter = 0
  /\ nEvents = 0
  /\ frame = 1

\* the 8 passes of the solver loop, then the eviction
NextLink == SolvePass \/ RemoveBroken

SpecLink == InitLink /\ [][NextLink]_vars

TypeOK ==
  /\ pc \in {"begin", "poll", "cut", "solve", "evict", "update", "render"}
  /\ grabbedPoint \in PointIds \cup {NoPoint}
  /\ iter \in 0 .. ITERATIONS

\* ================================================================== claims

\* the links of the live list that join points a and b
LinkKeys(lks) == {<<lks[j].p1, lks[j].p2>> : j \in 1 .. Len(lks)}
\* the points created with locked = true
Pinned == {i \in PointIds : GridPoints[i].locked}

\* ---------------------------------------------------------------------- C1
\* C1 (lock invariant): in every reachable state, whatever the pointer
\* positions, presses, releases and cuts so far, every particle created
\* locked (the top row) is still locked and still has the position it was
\* created with.
C1_LockInvariant ==
  \A i \in Pinned :
    /\ points[i].locked
    /\ points[i].pos = GridPoints[i].pos

\* a frame has pressed with the pointer nearest to a pinned particle, dragged
\* the particle it picked, relaxed links that end in a pinned particle and
\* are off their rest length, and integrated
C1_Witness ==
  /\ pc = "render"
  /\ frame = 2
  /\ mPos = Pixel(700, 88)
  /\ event = "MouseButtonPressed"
  /\ grabbedPoint # NoPoint
  /\ \E j \in 1 .. Len(links) :
       /\ links[j].p1 \in Pinned
       /\ links[j].p2 \notin Pinned
       /\ LinkDist(points, links[j]) # links[j].targetDist

\* ---------------------------------------------------------------------- C2
\* the pointer has placed point i: its x/y are the reverse projection of this
\* frame's pointer position at the point's own depth, and it has no velocity
AtPointer(i) ==
  LET w == Unproject(mPos, points[i].pos.z)
  IN /\ points[i].pos.x = w.x
     /\ points[i].pos.y = w.y
     /\ points[i].prevPos = points[i].pos

\* C2 (grab override): at the end of every frame, every particle whose
\* grabbed flag is set has x/y equal to the reverse projection of that
\* frame's pointer position at its own depth, and previousPosition equal to
\* position.
C2_GrabOverride ==
  pc = "render" => \A i \in PointIds : points[i].isGrabbed => AtPointer(i)

\* what does hold of the code: the particle the controller references is at
\* the pointer at the end of every frame ...
GrabOverrideOfReferenced ==
  (pc = "render" /\ grabbedPoint # NoPoint) => AtPointer(grabbedPoint)

\* ... and no step after the dragging block (cut, relaxation passes,
\* eviction, integration) changes a particle whose grabbed flag is set
GrabbedLeftAloneStep ==
  pc \in {"cut", "solve", "evict", "update"} =>
    \A i \in PointIds : points[i].isGrabbed => (points'[i] = points[i])
GrabbedLeftAlone == [][GrabbedLeftAloneStep]_vars

\* a second press picked another particle while one was held: the first
\* particle keeps its flag and is no longer the controller's
StaleGrab ==
  \E i \in PointIds : points[i].isGrabbed /\ i # grabbedPoint

\* ---------------------------------------------------------------------- C3
\* a relaxation pass started now: element j is what the pass finds when it
\* comes to link j, element j + 1 what the call of solve on link j leaves
PassTrace == SolveTrace(points, links, 1)

\* C3 (tear threshold): whenever a relaxation pass is about to run, for each
\* link that is unbroken when the pass reaches it, the call of solve sets
\* broken if and only if the distance of its endpoints is strictly greater
\* than restLength * 5; and a call that breaks the link moves no point.
C3_TearThreshold ==
  (pc = "solve" /\ iter < ITERATIONS) =>
    LET t == PassTrace
    IN \A j \in 1 .. Len(links) :
         LET l == t[j].lks[j]
             tears == t[j + 1].lks[j].broken
         IN ~l.broken =>
              /\ tears <=> (LinkDist(t[j].pts, l) > 5 * l.targetDist)
              /\ tears => t[j + 1].pts = t[j].pts

\* one pass meets a link stretched to exactly 5 rest lengths, which stays
\* whole, and a link stretched beyond, which it breaks
C3_Witness ==
  /\ pc = "solve"
  /\ iter < ITERATIONS
  /\ LET t == PassTrace
     IN /\ \E j \in 1 .. Len(links) :
             /\ ~t[j].lks[j].broken
             /\ LinkDist(t[j].pts, links[j]) = 5 * links[j].targetDist
             /\ ~t[j + 1].lks[j].broken
        /\ \E j \in 1 .. Len(links) :
             /\ ~t[j].lks[j].broken
             /\ LinkDist(t[j].pts, links[j]) > 5 * links[j].targetDist
             /\ t[j + 1].lks[j].broken

\* ---------------------------------------------------------------------- C4
\* what a step may do to the links that are already broken: each is still
\* broken or gone, it joins the same points, and no link comes (back) into
\* the list
BrokenStaysBroken ==
  /\ LinkKeys(links') \subseteq LinkKeys(links)
  /\ \A j \in 1 .. Len(links) :
       links[j].broken =>
         \A k \in 1 .. Len(links') :
           (links'[k].p1 = links[j].p1 /\ links'[k].p2 = links[j].p2)
             => links'[k].broken

\* every call of solve a pass makes on a broken link leaves all points and
\* the link as they are (a pass calls solve once per link, so the links it
\* finds broken are among those broken when it starts)
BrokenIsSkipped ==
  (pc = "solve" /\ iter < ITERATIONS /\ \E j \in 1 .. Len(links) : links[j].broken) =>
    LET t == PassTrace
    IN \A j \in 1 .. Len(links) :
         t[j].lks[j].broken =>
           /\ t[j + 1].pts = t[j].pts
           /\ t[j + 1].lks[j] = t[j].lks[j]

\* C4 (broken is irreversible): a link that is broken, by a tear or a cut,
\* is never unbroken again by any step; every later call of solve on it,
\* the remaining passes of the same frame included, changes no point; and a
\* link that has left the list never comes back.
C4_BrokenIrreversible == [](BrokenIsSkipped) /\ [][BrokenStaysBroken]_vars

\* a pass after the first meets a broken link whose endpoints are off their
\* rest length by less than the tear limit: relaxing it would move them
C4_Witness ==
  /\ pc = "solve"
  /\ iter >= 1
  /\ iter < ITERATIONS
  /\ LET t == PassTrace
     IN \E j \in 1 .. Len(links) :
          LET d == LinkDist(t[j].pts, links[j])
          IN /\ links[j].broken
             /\ d >= MIN_DIST
             /\ d # links[j].targetDist
             /\ d <= 5 * links[j].targetDist
             /\ Movable(t[j].pts[links[j].p2])

\* ---------------------------------------------------------------------- C5
\* the sub-list of the unbroken links of a list, in the list's order
RECURSIVE Survivors(_)
Survivors(lks) ==
  IF lks = <<>> THEN <<>>
  ELSE (IF Head(lks).broken THEN <<>> ELSE <<Head(lks)>>)
       \o Survivors(Tail(lks))

EvictionStep == pc = "evict" => links' = Survivors(links)

\* from the eviction to the hand-over to the renderer no link is broken
NoBrokenLinkDrawn ==
  pc \in {"update", "render"} =>
    \A j \in 1 .. Len(links) : ~links[j].broken

\* C5 (eviction): the step after the 8 passes makes the link list exactly
\* the sub-list of its unbroken links, each with its endpoints and rest
\* length, in the same relative order; so the list handed to the renderer
\* holds no broken link, torn or cut.
C5_Eviction == [](NoBrokenLinkDrawn) /\ [][EvictionStep]_vars

\* an eviction has removed some links and kept others
C5_Witness ==
  /\ pc = "update"
  /\ Len(links) > 0
  /\ Len(links) < Len(GridLinks)

\* ---------------------------------------------------------------------- C6
\* the side of the line from p through q on which r lies: the sign of the
\* signed area of the triangle p, q, r (0: r is on the line)
Side(p, q, r) ==
  LET left == (q.x - p.x) * (r.y - p.y)
      right == (q.y - p.y) * (r.x - p.x)
  IN IF left > right THEN 1 ELSE IF left < right THEN 0 - 1 ELSE 0

\* the segments a-b and c-d cross: each has its ends strictly on opposite
\* sides of the other's line
CrossProperly(a, b, c, d) ==
  /\ Side(c, d, a) * Side(c, d, b) < 0
  /\ Side(a, b, c) * Side(a, b, d) < 0

Min(x, y) == IF x < y THEN x ELSE y
Max(x, y) == IF x > y THEN x ELSE y
\* the segments a-b and c-d have a point in common (they cross or touch)
Meet(a, b, c, d) ==
  /\ Side(c, d, a) * Side(c, d, b) <= 0
  /\ Side(a, b, c) * Side(a, b, d) <= 0
  /\ Max(Min(a.x, b.x), Min(c.x, d.x)) <= Min(Max(a.x, b.x), Max(c.x, d.x))
  /\ Max(Min(a.y, b.y), Min(c.y, d.y)) <= Min(Max(a.y, b.y), Max(c.y, d.y))

\* the screen segment of link l
ScreenA(l) == Project(points[l.p1].pos)
ScreenB(l) == Project(points[l.p2].pos)

CutStep ==
  pc = "cut" =>
    /\ Len(links') = Len(links)
    /\ \A j \in 1 .. Len(links) :
         LET l == links[j]
             cut == links'[j].broken /\ ~l.broken
         IN /\ l.broken => links'[j].broken
            /\ (rightDown' /\ CrossProperly(lastMousePos, mPos, ScreenA(l), ScreenB(l)))
                 => links'[j].broken
            /\ cut => rightDown'
            /\ cut => Meet(lastMousePos, mPos, ScreenA(l), ScreenB(l))
            /\ links'[j].p1 = l.p1
            /\ links'[j].p2 = l.p2
            /\ links'[j].targetDist = l.targetDist

\* the two cases of the spec: a link projected to (0,0)-(10,10) is crossed
\* by the trail (5,-5) -> (5,15) and not by the trail (20,20) -> (30,30)
CutExamples ==
  /\ Intersects(Vec2(5, 0 - 5), Vec2(5, 15), Vec2(0, 0), Vec2(10, 10))
  /\ ~Intersects(Vec2(20, 20), Vec2(30, 30), Vec2(0, 0), Vec2(10, 10))

C7_OppositeSides ==
  probe.ret # "none" =>
    ((probe.ret = "true") <=> CrossProperly(probe.a, probe.b, probe.c, probe.d))

\* r is strictly to the left of the line from p through q
Left(p, q, r) == Side(p, q, r) = 1

\* C7 as amended: intersects(a, b, c, d) is true if and only if exactly one
\* of a, b is strictly to the left of the line from c through d and exactly
\* one of c, d is strictly to the left of the line from a through b; a point
\* on the line counts with the points to the right of it.
C7_LeftOrNot ==
  probe.ret # "none" =>
    ((probe.ret = "true") <=>
       /\ Left(probe.c, probe.d, probe.a) # Left(probe.c, probe.d, probe.b)
       /\ Left(probe.a, probe.b, probe.c) # Left(probe.a, probe.b, probe.d))

\* the two statements part ways only where a segment ends on the other's
\* line: with no point on the other segment's line, and with all four points
\* on one line, the result is as claimed
C7_AsClaimedElsewhere ==
  LET a == probe.a  b == probe.b  c == probe.c  d == probe.d
      general == /\ Side(c, d, a) # 0 /\ Side(c, d, b) # 0
                 /\ Side(a, b, c) # 0 /\ Side(a, b, d) # 0
      collinear == /\ Side(c, d, a) = 0 /\ Side(c, d, b) = 0
                   /\ Side(a, b, c) = 0 /\ Side(a, b, d) = 0
  IN (probe.ret # "none" /\ (general \/ collinear)) =>
       ((probe.ret = "true") <=> CrossProperly(a, b, c, d))

\* a segment that ends inside the other segment, its other end to the left
\* of it, has been reported as intersecting
C7_Witness ==
  /\ probe.ret = "true"
  /\ Side(probe.c, probe.d, probe.a) = 0
  /\ Side(probe.c, probe.d, probe.b) = 1
  /\ Side(probe.a, probe.b, probe.c) * Side(probe.a, probe.b, probe.d) < 0

\* ---------------------------------------------------------------------- C8
\* the first frame has run to its end with no event polled, nothing grabbed
\* and the secondary button up
FirstFrameNoInput ==
  /\ pc = "render"
  /\ frame = 1
  /\ nEvents = 0
  /\ ~rightDown
  /\ grabbedPoint = NoPoint

\* C8 (end-to-end): on the grid as constructed (top row locked, spacing
\* DISTANCE, position = previousPosition), after one full frame with no
\* input every particle below the top row has position.y strictly greater
\* than previousPosition.y, no link is broken or removed, and every particle
\* of the top row is where it was created.
C8_FirstFrame ==
  FirstFrameNoInput =>
    /\ \A i \in PointIds \ Pinned : points[i].pos.y > points[i].prevPos.y
    /\ \A i \in Pinned : points[i] = GridPoints[i]
    /\ Len(links) = Len(GridLinks)
    /\ \A j \in 1 .. Len(links) :
         /\ ~links[j].broken
         /\ links[j] = GridLinks[j]

\* such a frame has run on a grid of at least 3 x 3 particles
C8_Witness ==
  /\ FirstFrameNoInput
  /\ WIDTH >= 3
  /\ HEIGHT >= 3
  /\ \E i \in PointIds \ Pinned : points[i].pos # GridPoints[i].pos

\* ---------------------------------------------------------------------- C9
\* the exact squared distance of two points as created
GridDist2(a, b) ==
  LET p == GridPoints[a].pos
      q == GridPoints[b].pos
  IN (p.x - q.x) * (p.x - q.x) + (p.y - q.y) * (p.y - q.y)
     + (p.z - q.z) * (p.z - q.z)

\* C9 (rest length): in every reachable state every link of the list has a
\* rest length equal to the distance its two particles had when it was
\* created, which is the grid spacing DISTANCE; no drag, cut, relaxation,
\* tear, eviction or integration changes it.
C9_RestLength ==
  \A j \in 1 .. Len(links) :
    /\ links[j].targetDist = DISTANCE
    /\ links[j].targetDist * links[j].targetDist
         = GridDist2(links[j].p1, links[j].p2)

\* a second frame has dragged, relaxed, evicted and integrated: links are
\* gone, and one that is left has its endpoints off the rest length
C9_Witness ==
  /\ pc = "render"
  /\ frame = 2
  /\ Len(links) < Len(GridLinks)
  /\ \E j \in 1 .. Len(links) :
       LinkDist(points, links[j]) # links[j].targetDist

\* --------------------------------------------------------------------- C10
\* the distance on the screen of point i from the pointer
PointerDist(i) == ScreenDist(Project(points[i].pos), mPos)
\* the unlocked points within the pick radius
Pickable == {i \in PointIds : ~points[i].locked /\ PointerDist(i) < PICK_RADIUS}
\* the first in grid order of the pickable points nearest to the pointer
Nearest ==
  CHOOSE g \in Pickable :
    \A i \in Pickable :
      /\ PointerDist(g) <= PointerDist(i)
      /\ PointerDist(i) = PointerDist(g) => g <= i

\* a left press is handled while no point is held
PressStep ==
  (/\ pc = "poll"
   /\ nEvents' = nEvents + 1
   /\ event' = "MouseButtonPressed"
   /\ grabbedPoint = NoPoint) =>
    IF Pickable = {}
      THEN grabbedPoint' = NoPoint /\ points' = points
      ELSE /\ grabbedPoint' = Nearest
           /\ points' = [points EXCEPT ![Nearest].isGrabbed = TRUE]

NoPinnedGrab ==
  /\ grabbedPoint \notin Pinned
  /\ \A i \in Pinned : ~points[i].isGrabbed

\* C10 (press-select): a left press handled while idle grabs the unlocked
\* particle whose projection is nearest to the pointer among the unlocked
\* particles strictly within the pick radius of 50, the first in grid order
\* on a tie, and sets its grabbed flag only; with no unlocked particle in
\* the radius no flag is set and the controller stays idle.  A locked
\* particle is never grabbed.
C10_PressSelect == [](NoPinnedGrab) /\ [][PressStep]_vars

\* a press has just picked a particle although a locked particle is nearer
\* to the pointer and another unlocked particle is exactly as near
C10_Witness ==
  /\ pc = "poll"
  /\ frame = 1
  /\ event = "MouseButtonPressed"
  /\ grabbedPoint # NoPoint
  /\ \E i \in Pinned : PointerDist(i) < PointerDist(grabbedPoint)
  /\ \E i \in PointIds \ Pinned :
       /\ i > grabbedPoint
       /\ PointerDist(i) = PointerDist(grabbedPoint)

\* a press has found no unlocked particle within the radius
C10_NothingPicked ==
  /\ pc = "poll"
  /\ event = "MouseButtonPressed"
  /\ grabbedPoint = NoPoint
  /\ Pickable = {}

\* --------------------------------------------------------------------- C11
\* the polling loop handles a left release
ReleaseHandled ==
  pc = "poll" /\ nEvents' = nEvents + 1 /\ event' = "MouseButtonReleased"

\* a release while a particle is referenced clears that particle's flag and
\* the reference and changes nothing else of any particle; a release while
\* none is referenced changes nothing
ReleaseStep ==
  ReleaseHandled =>
    /\ grabbedPoint' = NoPoint
    /\ links' = links
    /\ IF grabbedPoint # NoPoint
         THEN /\ ~points'[grabbedPoint].isGrabbed
              /\ points' = [points EXCEPT ![grabbedPoint].isGrabbed = FALSE]
         ELSE points' = points

\* the dragging block writes the referenced particle and no other
DragOnlyReferenced ==
  (pc = "poll" /\ pc' = "cut") =>
    \A i \in PointIds : i # grabbedPoint => points'[i] = points[i]

\* a particle becomes the referenced one only by a press
ReferencedOnlyByPress ==
  (grabbedPoint' # grabbedPoint /\ grabbedPoint' # NoPoint) =>
    /\ pc = "poll"
    /\ nEvents' = nEvents + 1
    /\ event' = "MouseButtonPressed"

ReleaseContract == ReleaseStep /\ DragOnlyReferenced /\ ReferencedOnlyByPress

\* C11 (release): a left release handled while a particle is grabbed sets
\* that particle's grabbed flag to false and leaves no particle referenced;
\* from then on the dragging block of this and of every later frame leaves
\* the particle where it is until a press references it again; a release
\* handled while no particle is referenced changes nothing.
C11_Release == [][ReleaseContract]_vars

\* the second frame has handled a release of the particle the first frame
\* dragged, and its dragging block has run with the pointer elsewhere: the
\* particle is still where the first frame put it, not under the pointer
C11_Witness ==
  /\ pc = "cut"
  /\ frame = 2
  /\ event = "MouseButtonReleased"
  /\ grabbedPoint = NoPoint
  /\ mPos # lastMousePos
  /\ \E i \in PointIds \ Pinned :
       LET w == Unproject(lastMousePos, points[i].pos.z)
       IN /\ ~points[i].isGrabbed
          /\ points[i].pos.x = w.x
          /\ points[i].pos.y = w.y
          /\ ~AtPointer(i)

\* --------------------------------------------------------------------- C12
\* the cutting block runs once, before the first relaxation pass, and tests
\* every link against the positions it finds; it moves no particle
CutBlockStep ==
  pc = "cut" =>
    /\ pc' = "solve"
    /\ iter' = 0
    /\ points' = points
    /\ Len(links') = Len(links)
    /\ \A j \in 1 .. Len(links) :
         links'[j].broken <=>
           \/ links[j].broken
           \/ rightDown' /\ Crossed(points, links[j], lastMousePos, mPos)

\* between the cutting block and the eviction nothing but relaxation passes
\* run, and they leave a marked link marked
PassesKeepMarks ==
  pc = "solve" =>
    /\ pc' \in {"solve", "evict"}
    /\ Len(links') = Len(links)
    /\ \A j \in 1 .. Len(links) : links[j].broken => links'[j] = links[j]

\* a relaxation pass moves the particles exactly as it would if the marked
\* links were not in the list
MarkedNotCorrected ==
  (pc = "solve" /\ iter < ITERATIONS /\ \E j \in 1 .. Len(links) : links[j].broken) =>
    SolveFrom(points, links, 1).pts = SolveFrom(points, RemoveIfBroken(links), 1).pts

\* as claimed: from the top of the frame to the cutting block no particle
\* moves, so that the cut sees the positions the previous frame's
\* integration left
SamePositionsUntilCut ==
  pc \in {"begin", "poll"} =>
    \A i \in PointIds : points'[i].pos = points[i].pos

\* C12 as claimed (cut ordering): the cut check runs before every relaxation
\* pass of its frame and tests each link against the particle positions the
\* previous frame's integration left; a link it marks is corrected by none of
\* the frame's 8 passes.
CutOrderingAsClaimed ==
  SamePositionsUntilCut /\ CutBlockStep /\ PassesKeepMarks
C12_CutOrdering == [](MarkedNotCorrected) /\ [][CutOrderingAsClaimed]_vars

\* what the code does: from the top of the frame to the cutting block the
\* only particle that moves is the referenced one, which the dragging block
\* puts under this frame's pointer
OnlyDraggedMovesUntilCut ==
  pc \in {"begin", "poll"} =>
    \A i \in PointIds :
      \/ points'[i].pos = points[i].pos
      \/ /\ pc' = "cut"
         /\ i = grabbedPoint
         /\ points'[i] = Dragged(points[i], mPos)

CutOrderingAfterDrag ==
  OnlyDraggedMovesUntilCut /\ CutBlockStep /\ PassesKeepMarks

\* C12 (cut ordering, amended): the cut check runs before every relaxation
\* pass of its frame and after the dragging block: it tests each link against
\* the positions the previous frame's integration left, except that a grabbed
\* particle is already under this frame's pointer; a link it marks is
\* corrected by none of the frame's 8 passes.
C12_CutAfterDrag == [](MarkedNotCorrected) /\ [][CutOrderingAfterDrag]_vars

\* the first frame pressed, dragged the particle it picked and cut with the
\* right button held: a link is marked that the trail does not cross where
\* the construction left its endpoints, and the first pass is about to run
C12_Witness ==
  /\ pc = "solve"
  /\ iter = 0
  /\ frame = 1
  /\ rightDown
  /\ grabbedPoint # NoPoint
  /\ \E j \in 1 .. Len(links) :
       /\ links[j].broken
       /\ grabbedPoint \in {links[j].p1, links[j].p2}
       /\ ~Crossed(GridPoints, links[j], lastMousePos, mPos)
       /\ Movable(points[IF links[j].p1 = grabbedPoint THEN links[j].p2 ELSE links[j].p1])

\* --------------------------------------------------------------------- C13
\* |currentDistance - restLength| of the link on its own
LoneError(pts, l) == Abs(LinkDist(pts, l) - l.targetDist)

\* the case of the claim: unbroken, both endpoints free, distance at least
\* the epsilon and not above 5 rest lengths
SmallDelta(pts, l) ==
  /\ ~l.broken
  /\ Movable(pts[l.p1])
  /\ Movable(pts[l.p2])
  /\ LinkDist(pts, l) >= MIN_DIST
  /\ LinkDist(pts, l) <= l.targetDist * STRETCH_LIMIT

\* one pass on such a link does not break it, does not increase the error,
\* and at least halves an error above the rounding of one correction (two
\* hundredths of a unit here)
ConvergeStep ==
  (pc = "solve" /\ SmallDelta(points, links[1])) =>
    /\ ~links'[1].broken
    /\ LoneError(points', links'[1]) <= LoneError(points, links[1])
    /\ \/ LoneError(points', links'[1]) <= 2
       \/ 2 * LoneError(points', links'[1]) <= LoneError(points, links[1])

\* C13 (convergence): for one link between two free particles, off its rest
\* length, at a distance of at least the epsilon and at most 5 rest lengths,
\* with no other link on its endpoints, every relaxation pass leaves
\* |currentDistance - restLength| no larger than it found it, never breaks
\* the link, and the error is near zero after finitely many passes (after
\* the first).
C13_Convergence == [][ConvergeStep]_vars

\* a pass has moved both endpoints of a link that was off its rest length
\* by more than the rounding, and the link is now at its rest length
C13_Witness ==
  /\ pc = "solve"
  /\ iter = 1
  /\ Len(links) = 1
  /\ SmallDelta(points, links[1])
  /\ LoneError(points, links[1]) <= 2
  /\ LoneError([i \in {0, 1} |-> [points[i] EXCEPT !.pos = points[i].prevPos]],
               links[1]) > DISTANCE \div 2
  /\ points[0].pos # points[0].prevPos
  /\ points[1].pos # points[1].prevPos

\* --------------------------------------------------------------------- C14
\* a pass on an unbroken link whose endpoints are closer than the epsilon
\* moves neither endpoint (no correction, hence no division, is computed),
\* and unless the distance exceeds 5 rest lengths it leaves the link unbroken
DegenerateStep ==
  (pc = "solve" /\ ~links[1].broken /\ LinkDist(points, links[1]) < MIN_DIST) =>
    /\ points' = points
    /\ (LinkDist(points, links[1]) <= links[1].targetDist * STRETCH_LIMIT)
         => links' = links

\* a pass that moves an endpoint found the endpoints at least the epsilon
\* apart: the divisor of the correction is never below the epsilon
DivisorAboveEpsilon ==
  (pc = "solve" /\ points' # points) => LinkDist(points, links[1]) >= MIN_DIST

DegenerateGuard == DegenerateStep /\ DivisorAboveEpsilon

\* C14 (degenerate guard): relaxation never divides by a distance below the
\* epsilon; a pass on an unbroken link whose distance is below the epsilon
\* and not above restLength * 5 changes neither endpoint nor the broken
\* flag, whatever the rest length, zero included.
C14_DegenerateGuard == [][DegenerateGuard]_vars

\* all 8 passes have skipped a link whose endpoints are apart, closer than
\* the epsilon and closer than its rest length: nothing has moved
C14_Witness ==
  /\ pc = "evict"
  /\ Len(links) = 1
  /\ ~links[1].broken
  /\ LinkDist(points, links[1]) > 0
  /\ LinkDist(points, links[1]) < MIN_DIST
  /\ LinkDist(points, links[1]) < links[1].targetDist
  /\ \A i \in {0, 1} : points[i].pos = points[i].prevPos

\* the same with coincident endpoints and a rest length of zero
C14_ZeroRestLength ==
  /\ pc = "evict"
  /\ Len(links) = 1
  /\ ~links[1].broken
  /\ LinkDist(points, links[1]) = 0
  /\ links[1].targetDist = 0

\* --------------------------------------------------------------------- C15
\* the particle of column x, row y
At(x, y) == y * WIDTH + x

\* how many links of the list run from particle a to particle b
CountLinks(a, b) ==
  Cardinality({j \in 1 .. Len(links) : links[j].p1 = a /\ links[j].p2 = b})

\* C15 (grid construction): before the first frame the list holds exactly
\* one link from each particle (x, y) to (x+1, y) when x < W-1 and one to
\* (x, y+1) when y < H-1, and no other link: (W-1)*H + W*(H-1) links, none
\* broken; exactly the particles of row 0 are locked, none is grabbed, and
\* every particle has position = previousPosition.
C15_GridConstruction ==
  frame = 0 =>
    /\ DOMAIN points = 0 .. (WIDTH * HEIGHT - 1)
    /\ Len(links) = (WIDTH - 1) * HEIGHT + WIDTH * (HEIGHT - 1)
    /\ \A x \in 0 .. (WIDTH - 1), y \in 0 .. (HEIGHT - 1) :
         /\ x < WIDTH - 1 => CountLinks(At(x, y), At(x + 1, y)) = 1
         /\ y < HEIGHT - 1 => CountLinks(At(x, y), At(x, y + 1)) = 1
         /\ points[At(x, y)].locked <=> (y = 0)
         /\ ~points[At(x, y)].isGrabbed
         /\ points[At(x, y)].pos = points[At(x, y)].prevPos
    /\ \A j \in 1 .. Len(links) :
         /\ ~links[j].broken
         /\ \E x \in 0 .. (WIDTH - 1), y \in 0 .. (HEIGHT - 1) :
              /\ links[j].p1 = At(x, y)
              /\ \/ x < WIDTH - 1 /\ links[j].p2 = At(x + 1, y)
                 \/ y < HEIGHT - 1 /\ links[j].p2 = At(x, y + 1)

\* the construction has run and no frame has started: the grid has inner
\* particles with both links, and a last column and a last row without
C15_Witness ==
  /\ frame = 0
  /\ pc = "begin"
  /\ WIDTH > 1
  /\ HEIGHT > 1
  /\ CountLinks(At(0, 0), At(1, 0)) = 1
  /\ CountLinks(At(0, 0), At(0, 1)) = 1
  /\ \A j \in 1 .. Len(links) : links[j].p1 # At(WIDTH - 1, HEIGHT - 1)

\* --------------------------------------------------------------------- C16
\* C16 (grab-flag consistency): in every state the particles whose grabbed
\* flag is set are exactly the one particle the controller references, and
\* none when it references none.
C16_GrabFlagConsistency ==
  \A i \in PointIds : points[i].isGrabbed <=> (i = grabbedPoint)

\* what does hold of the code: the referenced particle has its flag set
ReferencedIsGrabbed ==
  grabbedPoint # NoPoint => points[grabbedPoint].isGrabbed

\* --------------------------------------------------------------------- C17
\* the pointer is sampled at the top of the frame and nowhere else
SampledAtTop == (mPos' # mPos) => (pc = "begin" /\ frame' = frame + 1)

\* lastMousePos is written at the end of every frame, held button or not,
\* and nowhere else
StoredAtEnd ==
  IF pc = "update" THEN lastMousePos' = mPos /\ pc' = "render"
  ELSE lastMousePos' = lastMousePos

\* the cutting block tests the segment from lastMousePos to mPos
CutSegment ==
  pc = "cut" =>
    \A j \in 1 .. Len(links) :
      links'[j].broken <=>
        \/ links[j].broken
        \/ /\ rightDown'
           /\ Intersects(lastMousePos, mPos,
                         Project(points[links[j].p1].pos),
                         Project(points[links[j].p2].pos))

CutEndpointsStep == SampledAtTop /\ StoredAtEnd /\ CutSegment

\* until the first frame has stored its pointer, lastMousePos is (0,0)
OriginInFirstFrame ==
  (frame = 0 \/ (frame = 1 /\ pc \in {"poll", "cut", "solve", "evict", "update"}))
    => lastMousePos = Vec2(0, 0)

\* C17 (cut segment endpoints): in every frame with the right button held the
\* segment tested against each link runs from the pointer sampled in the
\* frame before to the pointer sampled in this frame; the stored pointer is
\* updated at the end of every frame, held button or not; in the first frame
\* it is the screen origin (0,0).
C17_CutSegmentEndpoints == [](OriginInFirstFrame) /\ [][CutEndpointsStep]_vars

\* the second frame cuts, with the button held, a link of a cloth the first
\* frame left whole: the trail from the first frame's pointer crosses it,
\* the trail from the origin would not
C17_Witness ==
  /\ pc = "solve"
  /\ iter = 0
  /\ frame = 2
  /\ rightDown
  /\ lastMousePos \in MousePositions
  /\ lastMousePos # mPos
  /\ Len(links) = Len(GridLinks)
  /\ \E j \in 1 .. Len(links) :
       /\ links[j].broken
       /\ ~Crossed(points, links[j], Vec2(0, 0), mPos)

\* --------------------------------------------------------------------- C18
\* whether point p lies on the segment from c to d, ends included
OnSegment(p, c, d) ==
  /\ Orient(c, d, p) = 0
  /\ Min(c.x, d.x) <= p.x /\ p.x <= Max(c.x, d.x)
  /\ Min(c.y, d.y) <= p.y /\ p.y <= Max(c.y, d.y)

\* C18 (stationary pointer cuts nothing): for all points a, c, d the call
\* intersects(a, a, c, d) returns false, also when a lies on the segment
\* from c to d; so a frame whose pointer is where the previous frame's was
\* marks no link, right button held or not.
C18_StationaryPointer ==
  (probe.a = probe.b /\ probe.ret # "none") => probe.ret = "false"

\* intersects has been called with a trail of no length whose point lies on
\* a segment of positive length, between its ends
C18_Witness ==
  /\ probe.ret = "false"
  /\ probe.a = probe.b
  /\ probe.c # probe.d
  /\ probe.a # probe.c
  /\ probe.a # probe.d
  /\ OnSegment(probe.a, probe.c, probe.d)

\* the same in the frame loop: a cutting block that runs with the pointer
\* where the previous frame left it marks nothing
StationaryCutStep ==
  (pc = "cut" /\ mPos = lastMousePos) => links' = links
StationaryCut == [][StationaryCutStep]_vars

\* the second frame has held the right button with the pointer where the
\* first frame left it
StationaryCutReached ==
  /\ pc = "solve"
  /\ iter = 0
  /\ frame = 2
  /\ rightDown
  /\ mPos = lastMousePos

\* --------------------------------------------------------------------- C19
\* what a link is: its two particles and its rest length
LinkIdentity(l) == <<l.p1, l.p2, l.targetDist>>
LiveLinks(lks) == {LinkIdentity(lks[j]) : j \in 1 .. Len(lks)}

\* no step adds or removes a particle or changes a locked flag; no step adds
\* a link, and the links a step keeps join the particles they joined
MonotoneStep ==
  /\ DOMAIN points' = DOMAIN points
  /\ \A i \in DOMAIN points : points'[i].locked = points[i].locked
  /\ Len(links') <= Len(links)
  /\ LiveLinks(links') \subseteq LiveLinks(links)

\* the live links are links of the construction, each at most once
LiveFromConstruction ==
  /\ LiveLinks(links) \subseteq LiveLinks(GridLinks)
  /\ Cardinality(LiveLinks(links)) = Len(links)
  /\ DOMAIN points = PointIds

\* C19 (monotone mesh): over any sequence of frames the particle set is
\* constant and every particle keeps its locked flag; the live links of a
\* frame are a subset of those of the frame before, no link being added
\* after the construction, and every surviving link joins the two particles
\* it was created with.
C19_MonotoneMesh == [](LiveFromConstruction) /\ [][MonotoneStep]_vars

\* the second frame draws a cloth that has lost links to a cut or a tear,
\* with all its particles and the pinned row in place
C19_Witness ==
  /\ pc = "render"
  /\ frame = 2
  /\ Len(links) > 0
  /\ Len(links) < Len(GridLinks)
  /\ \E i \in PointIds \ Pinned : points[i].pos # GridPoints[i].pos

====
